---- MODULE Spec2Model ----
(***************************************************************************)
(* Model of grpc-explorer (src/script.js): configuration resolution,       *)
(* chain identity heuristics, fetchWithFailover (bounded retry and ordered *)
(* failover), the per-network pipeline processNetwork and the              *)
(* Promise.allSettled orchestration of main.                               *)
(*                                                                         *)
(* JavaScript strings are sequences of one-character strings, so that      *)
(* split/trim/includes/replace are computed as the code computes them.     *)
(***************************************************************************)
EXTENDS Integers, Sequences, FiniteSets, TLC

(***************************************************************************)
(* Program constants                                                       *)
(***************************************************************************)
RETRIES == 3

RETRY_DELAY_MS == 2000

OUT_DIR == <<".", "/", "o", "u", "t", "p", "u", "t">>

(***************************************************************************)
(* Bounds of the model                                                     *)
(***************************************************************************)
\* longest service list a listServices answer may carry
MaxServices == 2

\* variables in a generated environment
MaxEnvVars == 2

\* fragments in a generated endpoint spelling
MaxFragments == 3

\* methods of a generated service descriptor
MaxMethods == 2

(***************************************************************************)
(* String primitives                                                       *)
(***************************************************************************)
UpperChars ==
  <<"A", "B", "C", "D", "E", "F", "G", "H", "I", "J", "K", "L", "M",
    "N", "O", "P", "Q", "R", "S", "T", "U", "V", "W", "X", "Y", "Z">>

LowerChars ==
  <<"a", "b", "c", "d", "e", "f", "g", "h", "i", "j", "k", "l", "m",
    "n", "o", "p", "q", "r", "s", "t", "u", "v", "w", "x", "y", "z">>

DigitChars == <<"0", "1", "2", "3", "4", "5", "6", "7", "8", "9">>

Range(s) == { s[k] : k \in DOMAIN s }

\* String.prototype.trim: the only white space of the model is " "
IsSpace(c) == c = " "

RECURSIVE TrimStart(_)
TrimStart(s) ==
  IF s # <<>> /\ IsSpace(Head(s)) THEN TrimStart(Tail(s)) ELSE s

RECURSIVE TrimEnd(_)
TrimEnd(s) ==
  IF s # <<>> /\ IsSpace(s[Len(s)]) THEN TrimEnd(SubSeq(s, 1, Len(s) - 1)) ELSE s

Trim(s) == TrimEnd(TrimStart(s))

\* index of the first occurrence of character c in s, 0 when there is none
IndexOf(s, c) ==
  IF \E k \in DOMAIN s : s[k] = c
  THEN CHOOSE k \in DOMAIN s : s[k] = c /\ \A j \in 1..(k - 1) : s[j] # c
  ELSE 0

\* String.prototype.split(c) for a one-character separator
RECURSIVE Split(_, _)
Split(s, c) ==
  LET k == IndexOf(s, c)
  IN  IF k = 0
      THEN <<s>>
      ELSE <<SubSeq(s, 1, k - 1)>> \o Split(SubSeq(s, k + 1, Len(s)), c)

MatchesAt(s, p, i) ==
  /\ i + Len(p) - 1 <= Len(s)
  /\ \A j \in 1..Len(p) : s[i + j - 1] = p[j]

\* String.prototype.startsWith
StartsWith(s, p) == MatchesAt(s, p, 1)

\* String.prototype.includes
Includes(s, p) == \E i \in 1..(Len(s) + 1) : MatchesAt(s, p, i)

\* String.prototype.toLowerCase
LowerChar(c) ==
  IF \E k \in DOMAIN UpperChars : UpperChars[k] = c
  THEN LowerChars[CHOOSE k \in DOMAIN UpperChars : UpperChars[k] = c]
  ELSE c

ToLowerCase(s) == [k \in DOMAIN s |-> LowerChar(s[k])]

\* Array.prototype.filter(Boolean) on strings: the empty string is falsy
FilterBoolean(ss) == SelectSeq(ss, LAMBDA x : x # <<>>)

MapTrim(ss) == [k \in DOMAIN ss |-> Trim(ss[k])]

\* value.split(',').map(s => s.trim()).filter(Boolean)
ParseEndpoints(value) == FilterBoolean(MapTrim(Split(value, ",")))

(***************************************************************************)
(* getNetworkConfigs                                                       *)
(***************************************************************************)
KeyGRPC == <<"G", "R", "P", "C">>

PrefixGRPC == <<"G", "R", "P", "C", "_">>

NameDefault == <<"d", "e", "f", "a", "u", "l", "t">>

\* process.env[key]: the value of the entry with that key, <<>> when unset
\* (an unset variable and an empty one are both falsy)
EnvGet(e, key) ==
  IF \E k \in DOMAIN e : e[k].key = key
  THEN e[CHOOSE k \in DOMAIN e : e[k].key = key].value
  ELSE <<>>

LegacyConfigs(e) ==
  IF EnvGet(e, KeyGRPC) # <<>>
  THEN << [name |-> NameDefault, endpoints |-> ParseEndpoints(EnvGet(e, KeyGRPC))] >>
  ELSE <<>>

\* key.startsWith('GRPC_') && value
IsNetworkEntry(entry) == StartsWith(entry.key, PrefixGRPC) /\ entry.value # <<>>

\* key.substring(5).toLowerCase()
NetworkName(key) == ToLowerCase(SubSeq(key, Len(PrefixGRPC) + 1, Len(key)))

RECURSIVE PrefixedConfigs(_)
PrefixedConfigs(e) ==
  IF e = <<>>
  THEN <<>>
  ELSE (IF IsNetworkEntry(Head(e))
        THEN << [name |-> NetworkName(Head(e).key),
                 endpoints |-> ParseEndpoints(Head(e).value)] >>
        ELSE <<>>) \o PrefixedConfigs(Tail(e))

getNetworkConfigs(e) == LegacyConfigs(e) \o PrefixedConfigs(e)

(***************************************************************************)
(* getChainId                                                              *)
(***************************************************************************)
ChainTable_JunoFirst ==
  << [pattern |-> <<"j", "u", "n", "o">>,
      id |-> <<"j", "u", "n", "o", "-", "1">>],
     [pattern |-> <<"c", "o", "s", "m", "o", "s", "h", "u", "b">>,
      id |-> <<"c", "o", "s", "m", "o", "s", "h", "u", "b", "-", "4">>],
     [pattern |-> <<"o", "s", "m", "o", "s", "i", "s">>,
      id |-> <<"o", "s", "m", "o", "s", "i", "s", "-", "1">>],
     [pattern |-> <<"n", "e", "u", "t", "r", "o", "n">>,
      id |-> <<"n", "e", "u", "t", "r", "o", "n", "-", "1">>],
     [pattern |-> <<"a", "k", "a", "s", "h">>,
      id |-> <<"a", "k", "a", "s", "h", "n", "e", "t", "-", "2">>] >>

\* the if / else-if chain of getChainId, in source order
ChainTable ==
  << [pattern |-> <<"c", "o", "s", "m", "o", "s", "h", "u", "b">>,
      id |-> <<"c", "o", "s", "m", "o", "s", "h", "u", "b", "-", "4">>],
     [pattern |-> <<"o", "s", "m", "o", "s", "i", "s">>,
      id |-> <<"o", "s", "m", "o", "s", "i", "s", "-", "1">>],
     [pattern |-> <<"n", "e", "u", "t", "r", "o", "n">>,
      id |-> <<"n", "e", "u", "t", "r", "o", "n", "-", "1">>],
     [pattern |-> <<"j", "u", "n", "o">>,
      id |-> <<"j", "u", "n", "o", "-", "1">>],
     [pattern |-> <<"a", "k", "a", "s", "h">>,
      id |-> <<"a", "k", "a", "s", "h", "n", "e", "t", "-", "2">>] >>

\* [a-zA-Z0-9-]
IsIdChar(c) ==
  c \in Range(LowerChars) \cup Range(UpperChars) \cup Range(DigitChars) \cup {"-"}

\* endpoint.split(':')[0].replace(/[^a-zA-Z0-9-]/g, '-')
SanitizedHost(endpoint) ==
  LET host == Split(endpoint, ":")[1]
  IN  [k \in DOMAIN host |-> IF IsIdChar(host[k]) THEN host[k] ELSE "-"]

\* The catch branch of getChainId is dead: includes, split and replace do not
\* throw on a string, and every endpoint is a string produced by split/trim.
getChainId(endpoint) ==
  IF \E t \in DOMAIN ChainTable : Includes(endpoint, ChainTable[t].pattern)
  THEN ChainTable[CHOOSE t \in DOMAIN ChainTable :
                    /\ Includes(endpoint, ChainTable[t].pattern)
                    /\ \A u \in 1..(t - 1) :
                         ~Includes(endpoint, ChainTable[u].pattern)].id
  ELSE SanitizedHost(endpoint)

\* JavaScript truthiness of a chain id: null and '' are falsy
Truthy(s) == s # <<>>

\* let chainId = null: a value no string operation produces
Null == <<"null">>

\* !chainId is false
IsTruthy(s) == s # Null /\ Truthy(s)

(***************************************************************************)
(* Inputs: environments, endpoint health, reflection answers               *)
(***************************************************************************)
EnvEntry(k, v) == [key |-> k, value |-> v]

KeyX == <<"G", "R", "P", "C", "_", "X">>

KeyY == <<"G", "R", "P", "C", "_", "Y">>

KeyHome == <<"H", "O", "M", "E">>

\* The environments a run may start from (process.env in insertion order).
Environments ==
  { \* one legacy network with two endpoints, padded with blanks
    << EnvEntry(KeyGRPC, <<" ", "a", ".", "i", "o", ":", "1", " ", ",", "b", ":", "2">>) >>,
    \* a legacy network and a keyed one
    << EnvEntry(KeyGRPC, <<"a", ".", "i", "o", ":", "1">>),
       EnvEntry(KeyX, <<"b", ":", "2">>) >>,
    \* two keyed networks whose endpoints both name juno
    << EnvEntry(KeyX, <<"j", "u", "n", "o", ".", "a", ":", "1">>),
       EnvEntry(KeyY, <<"j", "u", "n", "o", ".", "b", ":", "2">>) >>,
    \* an endpoint with an empty host
    << EnvEntry(KeyGRPC, <<":", "9">>),
       EnvEntry(KeyX, <<"b", ":", "2">>) >>,
    \* a value of commas and blanks only
    << EnvEntry(KeyGRPC, <<" ", ",", " ">>),
       EnvEntry(KeyX, <<"b", ":", "2">>) >>,
    \* nothing configured: an unrelated variable and an empty keyed one
    << EnvEntry(KeyHome, <<"/", "r">>),
       EnvEntry(KeyX, <<>>) >>,
    \* the same endpoint listed twice
    << EnvEntry(KeyGRPC, <<"b", ":", "2", ",", "b", ":", "2">>) >>,
    \* a keyed network with two endpoints declared before the legacy one
    << EnvEntry(KeyX, <<"a", ".", "i", "o", ":", "1", ",", "b", ":", "2">>),
       EnvEntry(KeyGRPC, <<"c", ":", "3">>) >> }

\* How an endpoint answers reflection calls during the run.
Health == {"up", "down", "flaky"}

Addresses(configs) == UNION { Range(configs[k].endpoints) : k \in DOMAIN configs }

SvcReflection ==
  <<"g", "r", "p", "c", ".", "r", "e", "f", "l", "e", "c", "t", "i", "o", "n", ".", "v", "1", ".", "R">>

SvcBank == <<"b", "a", "n", "k", ".", "Q", "u", "e", "r", "y">>

SvcGov == <<"g", "o", "v", ".", "M", "s", "g">>

\* The answers listServices may give.
ServiceLists ==
  { l \in { <<>>,
            <<SvcReflection, SvcBank>>,
            <<SvcBank, SvcGov>>,
            <<SvcBank, SvcReflection, SvcGov>> } : Len(l) <= MaxServices }

\* What a successful client[fnName](...args) resolves to.
Answers(fn, arg) ==
  IF fn = "listServices" THEN ServiceLists ELSE { [symbol |-> arg] }

(***************************************************************************)
(* Descriptors: what protobuf.Root offers to processNetwork                *)
(***************************************************************************)
\* an entry of serviceDef.methods
Method(n, req, res, reqStream, resStream) ==
  [name |-> n, requestType |-> req, responseType |-> res,
   requestStream |-> reqStream, responseStream |-> resStream]

\* an entry of msg.fields
Field(n, t, number, rep) == [name |-> n, type |-> t, id |-> number, repeated |-> rep]

\* a message with two fields, one of them repeated
TypeReq ==
  [resolved |-> TRUE, hasFields |-> TRUE, name |-> "Req",
   fields |-> << Field("to", "string", 1, FALSE), Field("coins", "Coin", 2, TRUE) >>]

\* a message declared without any field: msg.fields is {}
TypeEmpty == [resolved |-> TRUE, hasFields |-> TRUE, name |-> "Empty", fields |-> <<>>]

\* an object that has no fields property
TypeOpaque == [resolved |-> TRUE, hasFields |-> FALSE, name |-> "Opaque", fields |-> <<>>]

\* a name the root does not resolve: lookupType gives null
TypeGone == [resolved |-> FALSE, hasFields |-> FALSE, name |-> "", fields |-> <<>>]

TypeNames == {"bank.Req", "bank.Empty", "bank.Opaque", "bank.Gone"}

\* root.lookupType(typeName), as a table
TypeTable ==
  [t \in TypeNames |->
     CASE t = "bank.Req" -> TypeReq
       [] t = "bank.Empty" -> TypeEmpty
       [] t = "bank.Opaque" -> TypeOpaque
       [] OTHER -> TypeGone]

Services == {SvcReflection, SvcBank, SvcGov}

\* the descriptors of the server the main specification runs against
DefaultRoots ==
  [svc \in Services |->
     IF svc = SvcBank
     THEN [methods |-> << Method("Send", "bank.Req", "bank.Empty", FALSE, FALSE),
                          Method("Watch", "bank.Empty", "bank.Req", FALSE, TRUE) >>,
           types |-> TypeTable]
     ELSE [methods |-> << Method("Vote", "bank.Req", "bank.Gone", TRUE, FALSE) >>,
           types |-> TypeTable]]

\* const root before the first descriptor has arrived
NoRoot == [methods |-> <<>>, types |-> <<>>]

(***************************************************************************)
(* State                                                                   *)
(***************************************************************************)
VARIABLES
  env,             \* process.env, a sequence of [key, value]
  argv,            \* process.argv.slice(2), the positional arguments
  roots,           \* the server's descriptors: what each service name decodes to
  unwritable,      \* the services whose output directory cannot be made
  health,          \* how each configured endpoint answers
  calls,           \* per network: the fetchWithFailover invocations begun so far
  phase,           \* "load" | "exited" | "configured" | "running" | "finished"
  exitCode,        \* -1 while the process runs
  networkConfigs,  \* const networkConfigs = getNetworkConfigs()
  pc,              \* per network: where processNetwork is suspended
  chainId,         \* per network: let chainId
  activeEndpoint,  \* per network: let activeEndpoint
  idTouched,       \* per network: endpoint positions handed to getChainId
  fetch,           \* per network: the running fetchWithFailover invocation
  services,        \* per network: result of listServices
  svcIdx,          \* per network: position of the for-of loop over services
  root,            \* per network: const root of the service being rendered
  used,            \* per network: const used, in insertion order
  manifest,        \* per network: const manifest
  files,           \* the output tree: path, writer and text of every write
  result,          \* per network: the value processNetwork resolved to
  summary          \* the lines of the generation summary

vars ==
  << env, argv, roots, unwritable, health, calls, phase, exitCode,
     networkConfigs, pc, chainId, activeEndpoint,
     idTouched, fetch, services, svcIdx, root, used, manifest, files, result,
     summary >>

Nets == DOMAIN networkConfigs

Endpoints(i) == networkConfigs[i].endpoints

IdleFetch ==
  [fn |-> "none", arg |-> <<>>, epIdx |-> 0, attempt |-> 0, client |-> 0,
   log |-> <<>>, outcome |-> "none", result |-> <<>>, endpoint |-> <<>>]

NoResult ==
  [network |-> <<>>, chainId |-> Null, status |-> "pending", error |-> "",
   servicesCount |-> 0, outputDir |-> <<>>]

NoManifest ==
  [chainId |-> Null, networkName |-> <<>>, endpoint |-> <<>>, services |-> <<>>]

\* The state of a process that has not run its first statement.
NotStarted ==
  /\ phase = "load"
  /\ exitCode = -1
  /\ calls = <<>>
  /\ networkConfigs = <<>>
  /\ pc = <<>>
  /\ chainId = <<>>
  /\ activeEndpoint = <<>>
  /\ idTouched = <<>>
  /\ fetch = <<>>
  /\ services = <<>>
  /\ svcIdx = <<>>
  /\ root = <<>>
  /\ used = <<>>
  /\ manifest = <<>>
  /\ files = {}
  /\ result = <<>>
  /\ summary = <<>>

Init ==
  /\ env \in Environments
  /\ argv = <<>>
  /\ roots = DefaultRoots
  /\ unwritable = {}
  /\ health \in [Addresses(getNetworkConfigs(env)) -> Health]
  /\ NotStarted

(***************************************************************************)
(* Module start-up: script.js lines 41-45                                  *)
(***************************************************************************)
NoNetworks_Unchecked(configs) == FALSE

\* networkConfigs.length === 0
NoNetworks(configs) == Len(configs) = 0

Startup ==
  /\ phase = "load"
  /\ LET configs == getNetworkConfigs(env)
     IN  /\ networkConfigs' = configs
         /\ IF NoNetworks(configs)
            THEN phase' = "exited" /\ exitCode' = 1
            ELSE phase' = "configured" /\ exitCode' = exitCode
  /\ UNCHANGED << env, argv, roots, unwritable, health, calls, pc, chainId,
                  activeEndpoint, idTouched, fetch,
                  services, svcIdx, root, used, manifest, files, result, summary >>

(***************************************************************************)
(* fetchWithFailover: script.js lines 54-75                                *)
(*                                                                         *)
(* fetch[i].log records, per invocation, every client made, every attempt  *)
(* and every completed retry delay, in program order.                      *)
(***************************************************************************)
LogClient(k, c) ==
  [kind |-> "client", ep |-> k, n |-> 0, client |-> c, ok |-> FALSE, ms |-> 0]

LogAttempt(k, a, c, success) ==
  [kind |-> "attempt", ep |-> k, n |-> a, client |-> c, ok |-> success, ms |-> 0]

LogWait(k, a, delay) ==
  [kind |-> "wait", ep |-> k, n |-> a, client |-> 0, ok |-> FALSE, ms |-> delay]

\* a failover loop that starts over at the first endpoint
NextEndpointIdx_Restart(k) == 1

\* for (const ep of endpoints): the position after k
NextEndpointIdx(k) == k + 1

\* a throw placed inside the endpoint loop: no endpoint after the first
HasNextEndpoint_Never(i, k) == FALSE

\* for (const ep of endpoints): is there an element after position k
HasNextEndpoint(i, k) == k < Len(Endpoints(i))

\* makeReflClient hoisted out of the endpoint loop: the same client again
NextClient_Reused(f) == f.client

\* const client = makeReflClient(ep), once per iteration of the endpoint loop:
\* the number of the client made after those f has made
NextClient(f) == f.client + 1

\* a delay after every failed attempt, the last one included
ShouldWait_AfterLast(attempt) == attempt <= RETRIES

\* if (attempt < RETRIES) await new Promise(r => setTimeout(r, RETRY_DELAY_MS))
ShouldWait(attempt) == attempt < RETRIES

\* a loop test that lets one more attempt through
HasAttemptLeft_OneMore(attempt) == attempt <= RETRIES

\* attempt++ and the loop test attempt <= RETRIES
HasAttemptLeft(attempt) == attempt + 1 <= RETRIES

\* an invocation that goes straight to the last configured endpoint
BeginFetch_AtLast(i, fnName, fnArg) ==
  IF Endpoints(i) = <<>>
  THEN [pc |-> "thrown",
        fetch |-> [IdleFetch EXCEPT !.fn = fnName, !.arg = fnArg, !.outcome = "thrown"]]
  ELSE [pc |-> "attempt",
        fetch |-> [IdleFetch EXCEPT !.fn = fnName, !.arg = fnArg,
                                    !.epIdx = Len(Endpoints(i)),
                                    !.attempt = 1, !.client = 1,
                                    !.log = <<LogClient(Len(Endpoints(i)), 1)>>,
                                    !.outcome = "pending"]]

\* The call fetchWithFailover(endpoints, fnName, ...args) up to its first await:
\* an empty list skips the loop and throws, otherwise the first client is made
\* and the first attempt is in flight.
BeginFetch(i, fnName, fnArg) ==
  IF Endpoints(i) = <<>>
  THEN [pc |-> "thrown",
        fetch |-> [IdleFetch EXCEPT !.fn = fnName, !.arg = fnArg, !.outcome = "thrown"]]
  ELSE [pc |-> "attempt",
        fetch |-> [IdleFetch EXCEPT !.fn = fnName, !.arg = fnArg, !.epIdx = 1,
                                    !.attempt = 1, !.client = 1,
                                    !.log = <<LogClient(1, 1)>>,
                                    !.outcome = "pending"]]

\* The end of the catch block: attempt++, the test attempt <= RETRIES, and on
\* exhaustion the next endpoint (with a new client) or the final throw.
AfterFailure(i, f) ==
  IF HasAttemptLeft(f.attempt)
  THEN [pc |-> "attempt", fetch |-> [f EXCEPT !.attempt = f.attempt + 1]]
  ELSE IF HasNextEndpoint(i, f.epIdx)
       THEN LET k == NextEndpointIdx(f.epIdx)
                c == NextClient(f)
            IN  [pc |-> "attempt",
                 fetch |-> [f EXCEPT !.epIdx = k, !.attempt = 1, !.client = c,
                                     !.log = Append(f.log, LogClient(k, c))]]
       ELSE [pc |-> "thrown", fetch |-> [f EXCEPT !.outcome = "thrown"]]

\* a success that does not return: the loops go on as after a failure
AfterSuccess_NoReturn(i, f, res) == AfterFailure(i, f)

\* return { result, endpoint: ep }
AfterSuccess(i, f, res) ==
  [pc |-> "returned",
   fetch |-> [f EXCEPT !.outcome = "returned", !.result = res,
                       !.endpoint = Endpoints(i)[f.epIdx]]]

PipelineFrame ==
  << env, argv, roots, unwritable, health, phase, exitCode, networkConfigs,
     chainId, activeEndpoint,
     idTouched, services, svcIdx, root, used, manifest, files, result, summary >>

\* await client[fnName](...args) resolves
FWF_AttemptOk(i) ==
  /\ phase = "running"
  /\ pc[i] = "attempt"
  /\ health[Endpoints(i)[fetch[i].epIdx]] # "down"
  /\ \E res \in Answers(fetch[i].fn, fetch[i].arg) :
       LET f  == fetch[i]
           f1 == [f EXCEPT !.log = Append(f.log, LogAttempt(f.epIdx, f.attempt, f.client, TRUE))]
           nx == AfterSuccess(i, f1, res)
       IN  /\ pc' = [pc EXCEPT ![i] = nx.pc]
           /\ fetch' = [fetch EXCEPT ![i] = nx.fetch]
  /\ UNCHANGED << calls, PipelineFrame >>

\* await client[fnName](...args) rejects
FWF_AttemptFail(i) ==
  /\ phase = "running"
  /\ pc[i] = "attempt"
  /\ health[Endpoints(i)[fetch[i].epIdx]] # "up"
  /\ LET f  == fetch[i]
         f1 == [f EXCEPT !.log = Append(f.log, LogAttempt(f.epIdx, f.attempt, f.client, FALSE))]
         nx == IF ShouldWait(f.attempt)
               THEN [pc |-> "wait", fetch |-> f1]
               ELSE AfterFailure(i, f1)
     IN  /\ pc' = [pc EXCEPT ![i] = nx.pc]
         /\ fetch' = [fetch EXCEPT ![i] = nx.fetch]
  /\ UNCHANGED << calls, PipelineFrame >>

\* the setTimeout of the retry delay fires
FWF_WaitDone(i) ==
  /\ phase = "running"
  /\ pc[i] = "wait"
  /\ LET f  == fetch[i]
         f1 == [f EXCEPT !.log = Append(f.log, LogWait(f.epIdx, f.attempt, RETRY_DELAY_MS))]
         nx == AfterFailure(i, f1)
     IN  /\ pc' = [pc EXCEPT ![i] = nx.pc]
         /\ fetch' = [fetch EXCEPT ![i] = nx.fetch]
  /\ UNCHANGED << calls, PipelineFrame >>

(***************************************************************************)
(* Paths                                                                   *)
(***************************************************************************)
RECURSIVE Concat(_)
Concat(ss) == IF ss = <<>> THEN <<>> ELSE Head(ss) \o Concat(Tail(ss))

SplitAll(parts, c) == Concat([k \in DOMAIN parts |-> Split(parts[k], c)])

\* path.join: the segments of all parts, without the empty and the "." ones.
\* A path is kept as the sequence of its segments.
\* (the argument is bound once, so that it is evaluated once)
PathJoin(parts) ==
  CHOOSE joined \in { SelectSeq(SplitAll(p, "/"), LAMBDA x : x # <<>> /\ x # <<".">>) :
                        p \in {parts} } : TRUE

\* path.join(OUT_DIR, chainId)
ChainDir(cid) == PathJoin(<<OUT_DIR, cid>>)

\* path.join(chainDir, ...svc.split('.'))
SvcDir(cid, svc) == PathJoin(ChainDir(cid) \o Split(svc, "."))

\* serviceDef.name of root.lookupService(svc): the last component of the name
ServiceName(svc) == LET parts == Split(svc, ".") IN parts[Len(parts)]

ExtSvc == <<".", "s", "v", "c", ".", "p", "r", "o", "t", "o">>

ExtMsg == <<".", "m", "s", "g", ".", "p", "r", "o", "t", "o">>

ManifestFile == <<"m", "a", "n", "i", "f", "e", "s", "t", ".", "j", "s", "o", "n">>

\* path.join(svcDir, `${serviceDef.name}.svc.proto`) and its .msg.proto twin
SvcFile(cid, svc, ext) == PathJoin(SvcDir(cid, svc) \o <<ServiceName(svc) \o ext>>)

\* path.join(chainDir, 'manifest.json')
ManifestPath(cid) == PathJoin(ChainDir(cid) \o <<ManifestFile>>)

\* the text of a path: its segments joined by "/"
RECURSIVE PathText(_)
PathText(path) ==
  IF path = <<>> THEN <<>>
  ELSE IF Len(path) = 1 THEN Head(path)
  ELSE Head(path) \o <<"/">> \o PathText(Tail(path))

\* String.prototype.replace(p, '') with a string pattern: the first occurrence
\* (the text is bound once, so that it is evaluated once)
RemoveFirst(s, p) ==
  CHOOSE r \in
    { IF Includes(t, p)
      THEN LET k == CHOOSE m \in 1..Len(t) :
                      MatchesAt(t, p, m) /\ \A j \in 1..(m - 1) : ~MatchesAt(t, p, j)
           IN  SubSeq(t, 1, k - 1) \o SubSeq(t, k + Len(p), Len(t))
      ELSE t : t \in {s} } : TRUE

\* svcDir.replace(OUT_DIR + '/', '')
ManifestEntryPath(cid, svc) == RemoveFirst(PathText(SvcDir(cid, svc)), OUT_DIR \o <<"/">>)

(***************************************************************************)
(* processNetwork: script.js lines 127-245                                 *)
(***************************************************************************)
ReflectionPrefix ==
  <<"g", "r", "p", "c", ".", "r", "e", "f", "l", "e", "c", "t", "i", "o", "n">>

\* a service loop without the skip
IsReflectionService_Never(svc) == FALSE

\* if (svc.startsWith('grpc.reflection')) continue
IsReflectionService(svc) == StartsWith(svc, ReflectionPrefix)

\* a loop that ends after its first service
NextServiceIdx_StopAfterFirst(svcs, from) ==
  IF from > 1 THEN Len(svcs) + 1
  ELSE IF \E k \in from..Len(svcs) : ~IsReflectionService(svcs[k])
  THEN CHOOSE k \in from..Len(svcs) :
         /\ ~IsReflectionService(svcs[k])
         /\ \A j \in from..(k - 1) : IsReflectionService(svcs[j])
  ELSE Len(svcs) + 1

\* the first position at or after from whose service is not skipped
NextServiceIdx(svcs, from) ==
  IF \E k \in from..Len(svcs) : ~IsReflectionService(svcs[k])
  THEN CHOOSE k \in from..Len(svcs) :
         /\ ~IsReflectionService(svcs[k])
         /\ \A j \in from..(k - 1) : IsReflectionService(svcs[j])
  ELSE Len(svcs) + 1

\* The for-of loop over services from position from to its next await: the
\* fetch of the next service's descriptor, or after the loop the manifest write.
ServiceLoop(i, svcs, from) ==
  LET k == NextServiceIdx(svcs, from)
  IN  IF k <= Len(svcs)
      THEN LET b == BeginFetch(i, "fileContainingSymbol", svcs[k])
           IN  [svcIdx |-> k, pc |-> b.pc, fetch |-> b.fetch, began |-> 1]
      ELSE [svcIdx |-> k, pc |-> "writeManifest", fetch |-> IdleFetch, began |-> 0]

\* the decoded answer of fileContainingSymbol for a symbol
FromDescriptor(res) == roots[res.symbol]

\* root.lookupService(svc)
lookupService(r, svc) == [name |-> ServiceName(svc), methods |-> r.methods]

\* m.requestStream ? 'stream ' : ''
StreamPrefix(flag) == IF flag THEN "stream " ELSE ""

\* the two stream keywords on the wrong sides
RpcLine_Swapped(m) ==
  [name |-> m.name,
   reqStream |-> StreamPrefix(m.responseStream), requestType |-> m.requestType,
   resStream |-> StreamPrefix(m.requestStream), responseType |-> m.responseType]

\* `  rpc ${mName} (${reqStream}${m.requestType}) returns (${resStream}${m.responseType});`
\* kept as the values of its placeholders
RpcLine(m) ==
  [name |-> m.name,
   reqStream |-> StreamPrefix(m.requestStream), requestType |-> m.requestType,
   resStream |-> StreamPrefix(m.responseStream), responseType |-> m.responseType]

\* for (const [mName, m] of Object.entries(serviceDef.methods))
RpcLines(methods) == [k \in DOMAIN methods |-> RpcLine(methods[k])]

\* a list in place of the Set: every add appends
SetAdd_Dup(set, t) == Append(set, t)

\* Set.prototype.add: a Set iterates in insertion order and holds a value once
SetAdd(set, t) == IF t \in Range(set) THEN set ELSE Append(set, t)

\* used.add(m.requestType); used.add(m.responseType) for every method from k on
RECURSIVE UsedFrom(_, _, _)
UsedFrom(methods, k, set) ==
  IF k > Len(methods) THEN set
  ELSE UsedFrom(methods, k + 1,
                SetAdd(SetAdd(set, methods[k].requestType), methods[k].responseType))

\* const used = new Set() filled by the loop over serviceDef.methods
UsedTypes(methods) == UsedFrom(methods, 1, <<>>)

\* a filter that also drops a message with an empty field map
HasBlock_NonEmpty(msg) == msg.resolved /\ msg.hasFields /\ msg.fields # <<>>

\* if (!msg || !msg.fields) continue: an object is truthy even when it is {}
HasBlock(msg) == ~(~msg.resolved \/ ~msg.hasFields)

\* `  ${rule}${f.type} ${f.name} = ${f.id};`, kept as its placeholders
FieldLine(f) ==
  [rule |-> IF f.repeated THEN "repeated " ELSE "", type |-> f.type,
   name |-> f.name, id |-> f.id]

\* `message ${msg.name} {` ... `}`
MessageBlock(msg) ==
  [name |-> msg.name, lines |-> [k \in DOMAIN msg.fields |-> FieldLine(msg.fields[k])]]

\* for (const typeName of used): the blocks of the types that pass the filter
MessageBlocks(r, set) ==
  LET kept == SelectSeq(set, LAMBDA t : HasBlock(r.types[t]))
  IN  [k \in DOMAIN kept |-> MessageBlock(r.types[kept[k]])]

\* the comment lines // Chain, // Network, // Service (the Generated line
\* holds the wall clock and is left out)
Header(i, svc) == [chainId |-> chainId[i], network |-> networkConfigs[i].name, service |-> svc]

\* a completed writeFile(filePath, content)
OutFile(filePath, i, kind, header) ==
  [path |-> filePath, by |-> i, kind |-> kind, header |-> header, name |-> <<>>,
   rpcs |-> <<>>, blocks |-> <<>>, manifest |-> NoManifest]

\* an unshift in place of the push
ManifestPush_Front(list, entry) == <<entry>> \o list

\* manifest.services.push({ service, path, methods })
ManifestPush(list, entry) == Append(list, entry)

\* a catch block that removes what its network has written
FilesAfterFailure_Rollback(i) == { f \in files : f.by # i }

\* catch (err): the block logs and returns, the output tree is left as it is
FilesAfterFailure(i) == files

\* fs.mkdir succeeds for the directory of the service, so fs.writeFile does
Writable(svc) == svc \notin unwritable

\* err.message of the rejection of fs.writeFile when ensureDir has swallowed
\* the failure of fs.mkdir
ErrWrite == "ENOENT: no such file or directory"

ErrNoChainId == "Could not determine chain ID"

\* `[${fnName}] all endpoints failed`
ErrAllFailed(fn) ==
  IF fn = "listServices"
  THEN "[listServices] all endpoints failed"
  ELSE "[fileContainingSymbol] all endpoints failed"

\* return { network: name, status: 'failed', error: 'Could not determine chain ID' }
FailedNoChainId(i) ==
  [NoResult EXCEPT !.network = networkConfigs[i].name, !.status = "failed",
                   !.error = ErrNoChainId]

\* the break of the identity loop after the first getChainId that returns
IdentityLoopBreaks == TRUE

\* processNetwork(config) up to its first await: with no endpoint the identity
\* loop is skipped and the failed result is returned at once, otherwise
\* getChainId(endpoints[0]) has been called and is awaited.
StartPipeline(i) ==
  IF Endpoints(i) = <<>>
  THEN [pc |-> "done", idTouched |-> <<>>, result |-> FailedNoChainId(i)]
  ELSE [pc |-> "identity", idTouched |-> <<1>>, result |-> NoResult]

\* Promise.allSettled(networkConfigs.map(config => processNetwork(config)))
Main_Start ==
  /\ phase = "configured"
  /\ phase' = "running"
  /\ pc' = [i \in Nets |-> StartPipeline(i).pc]
  /\ idTouched' = [i \in Nets |-> StartPipeline(i).idTouched]
  /\ result' = [i \in Nets |-> StartPipeline(i).result]
  /\ chainId' = [i \in Nets |-> Null]
  /\ activeEndpoint' = [i \in Nets |-> Null]
  /\ fetch' = [i \in Nets |-> IdleFetch]
  /\ services' = [i \in Nets |-> <<>>]
  /\ svcIdx' = [i \in Nets |-> 0]
  /\ root' = [i \in Nets |-> NoRoot]
  /\ used' = [i \in Nets |-> <<>>]
  /\ manifest' = [i \in Nets |-> NoManifest]
  /\ calls' = [i \in Nets |-> 0]
  /\ UNCHANGED << env, argv, roots, unwritable, health, exitCode, networkConfigs, files,
                  summary >>

\* chainId = await getChainId(endpoint); activeEndpoint = endpoint; break;
\* then the test of chainId and await ensureDir(chainDir)
P_Identity(i) ==
  /\ phase = "running"
  /\ pc[i] = "identity"
  /\ LET k   == idTouched[i][Len(idTouched[i])]
         cid == getChainId(Endpoints(i)[k])
     IN  /\ chainId' = [chainId EXCEPT ![i] = cid]
         /\ activeEndpoint' = [activeEndpoint EXCEPT ![i] = Endpoints(i)[k]]
         /\ IF ~IdentityLoopBreaks /\ k < Len(Endpoints(i))
            THEN /\ idTouched' = [idTouched EXCEPT ![i] = Append(@, k + 1)]
                 /\ UNCHANGED << pc, result >>
            ELSE /\ idTouched' = idTouched
                 /\ IF IsTruthy(cid)
                    THEN /\ pc' = [pc EXCEPT ![i] = "mkdir"]
                         /\ result' = result
                    ELSE /\ pc' = [pc EXCEPT ![i] = "done"]
                         /\ result' = [result EXCEPT ![i] = FailedNoChainId(i)]
  /\ UNCHANGED << env, argv, roots, unwritable, health, calls, phase, exitCode,
                  networkConfigs, fetch, services,
                  svcIdx, root, used, manifest, files, summary >>

\* await fetchWithFailover(endpoints, 'listServices') is called
P_ListServices(i) ==
  /\ phase = "running"
  /\ pc[i] = "mkdir"
  /\ LET b == BeginFetch(i, "listServices", <<>>)
     IN  /\ pc' = [pc EXCEPT ![i] = b.pc]
         /\ fetch' = [fetch EXCEPT ![i] = b.fetch]
  /\ calls' = [calls EXCEPT ![i] = @ + 1]
  /\ UNCHANGED PipelineFrame

\* listServices returned: the manifest object is made and the service loop starts
P_AfterList(i) ==
  /\ phase = "running"
  /\ pc[i] = "returned"
  /\ fetch[i].fn = "listServices"
  /\ LET svcs == fetch[i].result
         nx   == ServiceLoop(i, svcs, 1)
     IN  /\ services' = [services EXCEPT ![i] = svcs]
         /\ manifest' = [manifest EXCEPT ![i] =
                           [chainId |-> chainId[i],
                            networkName |-> networkConfigs[i].name,
                            endpoint |-> fetch[i].endpoint,
                            services |-> <<>>]]
         /\ svcIdx' = [svcIdx EXCEPT ![i] = nx.svcIdx]
         /\ pc' = [pc EXCEPT ![i] = nx.pc]
         /\ fetch' = [fetch EXCEPT ![i] = nx.fetch]
         /\ calls' = [calls EXCEPT ![i] = @ + nx.began]
  /\ UNCHANGED << env, argv, roots, unwritable, health, phase, exitCode,
                  networkConfigs, chainId,
                  activeEndpoint, idTouched, root, used, files, result, summary >>

\* fileContainingSymbol returned: the service text is rendered and its write awaited
P_AfterDescriptor(i) ==
  /\ phase = "running"
  /\ pc[i] = "returned"
  /\ fetch[i].fn = "fileContainingSymbol"
  /\ root' = [root EXCEPT ![i] = FromDescriptor(fetch[i].result)]
  /\ pc' = [pc EXCEPT ![i] = "writeSvc"]
  /\ fetch' = [fetch EXCEPT ![i] = IdleFetch]
  /\ UNCHANGED << env, argv, roots, unwritable, health, calls, phase, exitCode,
                  networkConfigs, chainId,
                  activeEndpoint, idTouched, services, svcIdx, used, manifest,
                  files, result, summary >>

\* the .svc.proto write completes; the message text is rendered and its write awaited
P_WroteSvc(i) ==
  /\ phase = "running"
  /\ pc[i] = "writeSvc"
  /\ Writable(services[i][svcIdx[i]])
  /\ LET svc == services[i][svcIdx[i]]
         def == lookupService(root[i], svc)
     IN  /\ files' = files \cup
               { [OutFile(SvcFile(chainId[i], svc, ExtSvc), i, "svc", Header(i, svc))
                    EXCEPT !.name = def.name, !.rpcs = RpcLines(def.methods)] }
         /\ used' = [used EXCEPT ![i] = UsedTypes(def.methods)]
  /\ pc' = [pc EXCEPT ![i] = "writeMsg"]
  /\ UNCHANGED << env, argv, roots, unwritable, health, calls, phase, exitCode,
                  networkConfigs, chainId,
                  activeEndpoint, idTouched, fetch, services, svcIdx, root, manifest,
                  result, summary >>

\* the .msg.proto write completes; manifest.services.push and the next service
P_WroteMsg(i) ==
  /\ phase = "running"
  /\ pc[i] = "writeMsg"
  /\ Writable(services[i][svcIdx[i]])
  /\ LET svc == services[i][svcIdx[i]]
         nx  == ServiceLoop(i, services[i], svcIdx[i] + 1)
         def == lookupService(root[i], svc)
     IN  /\ files' = files \cup
               { [OutFile(SvcFile(chainId[i], svc, ExtMsg), i, "msg", Header(i, svc))
                    EXCEPT !.blocks = MessageBlocks(root[i], used[i])] }
         /\ manifest' = [manifest EXCEPT ![i].services =
                           ManifestPush(@, [service |-> svc,
                                            path |-> ManifestEntryPath(chainId[i], svc),
                                            methods |-> Len(def.methods)])]
         /\ svcIdx' = [svcIdx EXCEPT ![i] = nx.svcIdx]
         /\ pc' = [pc EXCEPT ![i] = nx.pc]
         /\ fetch' = [fetch EXCEPT ![i] = nx.fetch]
         /\ calls' = [calls EXCEPT ![i] = @ + nx.began]
  /\ UNCHANGED << env, argv, roots, unwritable, health, phase, exitCode,
                  networkConfigs, chainId,
                  activeEndpoint, idTouched, services, root, used, result, summary >>

\* the manifest.json write completes and the success result is returned
P_WroteManifest(i) ==
  /\ phase = "running"
  /\ pc[i] = "writeManifest"
  /\ files' = files \cup
       { [OutFile(ManifestPath(chainId[i]), i, "manifest", Header(i, <<>>))
            EXCEPT !.manifest = manifest[i]] }
  /\ result' = [result EXCEPT ![i] =
                  [network |-> networkConfigs[i].name,
                   chainId |-> chainId[i],
                   status |-> "success",
                   error |-> "",
                   servicesCount |-> Len(manifest[i].services),
                   outputDir |-> PathText(ChainDir(chainId[i]))]]
  /\ pc' = [pc EXCEPT ![i] = "done"]
  /\ UNCHANGED << env, argv, roots, unwritable, health, calls, phase, exitCode,
                  networkConfigs, chainId,
                  activeEndpoint, idTouched, fetch, services, svcIdx, root, used,
                  manifest, summary >>

\* catch (err): return { network, chainId, status: 'failed', error: err.message }
P_Catch(i) ==
  /\ phase = "running"
  /\ pc[i] = "thrown"
  /\ result' = [result EXCEPT ![i] =
                  [NoResult EXCEPT !.network = networkConfigs[i].name,
                                   !.chainId = chainId[i],
                                   !.status = "failed",
                                   !.error = ErrAllFailed(fetch[i].fn)]]
  /\ pc' = [pc EXCEPT ![i] = "done"]
  /\ fetch' = [fetch EXCEPT ![i] = IdleFetch]
  /\ files' = FilesAfterFailure(i)
  /\ UNCHANGED << env, argv, roots, unwritable, health, calls, phase, exitCode,
                  networkConfigs, chainId,
                  activeEndpoint, idTouched, services, svcIdx, root, used, manifest,
                  summary >>

\* await writeFile(...) of a service file rejects: control passes to the catch
\* block, which returns { network, chainId, status: 'failed', error: err.message }
P_WriteFailed(i) ==
  /\ phase = "running"
  /\ pc[i] \in {"writeSvc", "writeMsg"}
  /\ ~Writable(services[i][svcIdx[i]])
  /\ result' = [result EXCEPT ![i] =
                  [NoResult EXCEPT !.network = networkConfigs[i].name,
                                   !.chainId = chainId[i],
                                   !.status = "failed",
                                   !.error = ErrWrite]]
  /\ pc' = [pc EXCEPT ![i] = "done"]
  /\ files' = FilesAfterFailure(i)
  /\ UNCHANGED << env, argv, roots, unwritable, health, calls, phase, exitCode,
                  networkConfigs,
                  chainId, activeEndpoint, idTouched, fetch, services, svcIdx, root,
                  used, manifest, summary >>

(***************************************************************************)
(* main: script.js lines 247-280                                           *)
(***************************************************************************)
\* a join that settles with the first settled pipeline (Promise.race)
AllSettled_First == \E i \in Nets : pc[i] = "done"

\* Promise.allSettled settles when every promise has settled
AllSettled == \A i \in Nets : pc[i] = "done"

\* one line of the summary for a fulfilled entry of results
SummaryLine(r) ==
  IF r.status = "success"
  THEN [ok |-> TRUE, network |-> r.network, chainId |-> r.chainId,
        servicesCount |-> r.servicesCount, outputDir |-> r.outputDir, error |-> ""]
  ELSE [ok |-> FALSE, network |-> r.network, chainId |-> Null,
        servicesCount |-> 0, outputDir |-> <<>>, error |-> r.error]

\* the summary loop; main resolves and the process ends with code 0
Main_Summary ==
  /\ phase = "running"
  /\ AllSettled
  /\ summary' = [i \in Nets |-> SummaryLine(result[i])]
  /\ phase' = "finished"
  /\ exitCode' = 0
  /\ UNCHANGED << env, argv, roots, unwritable, health, calls, networkConfigs,
                  pc, chainId, activeEndpoint,
                  idTouched, fetch, services, svcIdx, root, used, manifest, files,
                  result >>

Next ==
  \/ Startup
  \/ Main_Start
  \/ \E i \in Nets : P_Identity(i)
  \/ \E i \in Nets : P_ListServices(i)
  \/ \E i \in Nets : FWF_AttemptOk(i)
  \/ \E i \in Nets : FWF_AttemptFail(i)
  \/ \E i \in Nets : FWF_WaitDone(i)
  \/ \E i \in Nets : P_AfterList(i)
  \/ \E i \in Nets : P_AfterDescriptor(i)
  \/ \E i \in Nets : P_WroteSvc(i)
  \/ \E i \in Nets : P_WroteMsg(i)
  \/ \E i \in Nets : P_WroteManifest(i)
  \/ \E i \in Nets : P_Catch(i)
  \/ Main_Summary

Spec == Init /\ [][Next]_vars

\* The runs checked for termination: one network with two endpoints, two
\* networks with one endpoint each, and a network without any endpoint next
\* to one with an endpoint.
LiveEnvironments ==
  { << EnvEntry(KeyGRPC, <<"a", ".", "i", "o", ":", "1", ",", "b", ":", "2">>) >>,
    << EnvEntry(KeyGRPC, <<"a", ".", "i", "o", ":", "1">>), EnvEntry(KeyX, <<"b", ":", "2">>) >>,
    << EnvEntry(KeyGRPC, <<" ", ",", " ">>), EnvEntry(KeyX, <<"b", ":", "2">>) >> }

InitLive ==
  /\ env \in LiveEnvironments
  /\ argv = <<>>
  /\ roots = DefaultRoots
  /\ unwritable = {}
  /\ health \in [Addresses(getNetworkConfigs(env)) -> Health]
  /\ NotStarted

\* Every reflection call settles and the event loop runs a continuation that
\* is ready: a step that can be taken is eventually taken.
SpecLive == InitLive /\ [][Next]_vars /\ WF_vars(Next)

(***************************************************************************)
(* Configuration inputs                                                    *)
(*                                                                         *)
(* SpecInputs runs start-up and the identity step of every pipeline over a *)
(* wide set of environments, command lines and endpoint spellings.         *)
(***************************************************************************)
KeyLowerX == <<"G", "R", "P", "C", "_", "x">>

KeyDefault == <<"G", "R", "P", "C", "_", "D", "E", "F", "A", "U", "L", "T">>

ConfigKeys == {KeyGRPC, KeyX, KeyLowerX, KeyDefault, KeyHome}

ConfigValues == { <<>>, <<",">>, <<"b", ":", "2">>, <<"a", ".", "i", "o", ":", "1", ",", "b", ":", "2">> }

ConfigEntries == { EnvEntry(k, v) : k \in ConfigKeys, v \in ConfigValues }

\* process.env holds every key once
ConfigEnvironments ==
  { e \in UNION { [1..m -> ConfigEntries] : m \in 0..MaxEnvVars } :
      \A j, k \in DOMAIN e : j # k => e[j].key # e[k].key }

Fragments == { <<"j", "u", "n", "o">>, <<"o", "s", "m", "o", "s", "i", "s">>, <<":">>, <<"x", "_", "y", ".">>, <<"d", "n", "s">> }

ExampleOsmosis == <<"g", "r", "p", "c", ".", "o", "s", "m", "o", "s", "i", "s", ".", "e", "x", "a", "m", "p", "l", "e", ".", "c", "o", "m", ":", "4", "4", "3">>

ExampleFooBar == <<"f", "o", "o", ".", "b", "a", "r", ".", "n", "e", "t", ":", "4", "4", "3">>

\* endpoint spellings: up to MaxFragments fragments glued together
Probes ==
  { Concat(f) : f \in UNION { [1..m -> Fragments] : m \in 1..MaxFragments } }
    \cup {ExampleOsmosis, ExampleFooBar}

ProbeEnvironments == { << EnvEntry(KeyGRPC, p) >> : p \in Probes }

InputEnvironments == ConfigEnvironments \cup ProbeEnvironments

\* process.argv.slice(2): nothing, or one endpoint
Overrides == { <<>>, << <<"h", ":", "1">> >> }

InitInputs ==
  /\ env \in InputEnvironments
  /\ argv \in Overrides
  /\ roots = DefaultRoots
  /\ unwritable = {}
  /\ health = [a \in Addresses(getNetworkConfigs(env)) |-> "up"]
  /\ NotStarted

NextInputs ==
  \/ Startup
  \/ Main_Start
  \/ \E i \in Nets : P_Identity(i)

SpecInputs == InitInputs /\ [][NextInputs]_vars

(***************************************************************************)
(* Rendering inputs                                                        *)
(*                                                                         *)
(* SpecRender runs one network with one answering endpoint against a wide  *)
(* set of descriptors for the bank service.                                *)
(***************************************************************************)
MethodNames == {"Send", "Burn", "Mint"}

\* request type, response type and the two streaming flags of a method
Shapes ==
  { <<"bank.Req", "bank.Empty", FALSE, FALSE>>,
    <<"bank.Empty", "bank.Req", TRUE, FALSE>>,
    <<"bank.Gone", "bank.Req", FALSE, TRUE>>,
    <<"bank.Req", "bank.Req", TRUE, TRUE>>,
    <<"bank.Opaque", "bank.Gone", FALSE, FALSE>>,
    <<"bank.Empty", "bank.Empty", FALSE, TRUE>> }

MethodPool == { Method(n, sh[1], sh[2], sh[3], sh[4]) : n \in MethodNames, sh \in Shapes }

\* serviceDef.methods is keyed by method name: every name once
MethodLists ==
  { l \in UNION { [1..m -> MethodPool] : m \in 0..MaxMethods } :
      \A j, k \in DOMAIN l : j # k => l[j].name # l[k].name }

RenderRoots ==
  { [DefaultRoots EXCEPT ![SvcBank] = [methods |-> l, types |-> TypeTable]] :
      l \in MethodLists }

InitRender ==
  /\ env = << EnvEntry(KeyGRPC, <<"b", ":", "2">>) >>
  /\ argv = <<>>
  /\ roots \in RenderRoots
  /\ unwritable = {}
  /\ health = [a \in Addresses(getNetworkConfigs(env)) |-> "up"]
  /\ NotStarted

NextRender ==
  \/ Startup
  \/ Main_Start
  \/ \E i \in Nets : P_Identity(i)
  \/ \E i \in Nets : P_ListServices(i)
  \/ \E i \in Nets : FWF_AttemptOk(i)
  \/ \E i \in Nets : P_AfterList(i)
  \/ \E i \in Nets : P_AfterDescriptor(i)
  \/ \E i \in Nets : P_WroteSvc(i)
  \/ \E i \in Nets : P_WroteMsg(i)
  \/ \E i \in Nets : P_WroteManifest(i)
  \/ Main_Summary

SpecRender == InitRender /\ [][NextRender]_vars

(***************************************************************************)
(* Output tree inputs                                                      *)
(*                                                                         *)
(* SpecDisk runs the program on an output tree in which the directory of   *)
(* one service may refuse to be made.                                      *)
(***************************************************************************)
DiskEnvironments ==
  { << EnvEntry(KeyGRPC, <<"b", ":", "2">>) >>,
    << EnvEntry(KeyGRPC, <<"a", ".", "i", "o", ":", "1">>), EnvEntry(KeyX, <<"b", ":", "2">>) >> }

Unwritables == { {}, {SvcBank}, {SvcGov} }

InitDisk ==
  /\ env \in DiskEnvironments
  /\ argv = <<>>
  /\ roots = DefaultRoots
  /\ unwritable \in Unwritables
  /\ health \in [Addresses(getNetworkConfigs(env)) -> Health]
  /\ NotStarted

NextDisk ==
  \/ Startup
  \/ Main_Start
  \/ \E i \in Nets : P_Identity(i)
  \/ \E i \in Nets : P_ListServices(i)
  \/ \E i \in Nets : FWF_AttemptOk(i)
  \/ \E i \in Nets : FWF_AttemptFail(i)
  \/ \E i \in Nets : FWF_WaitDone(i)
  \/ \E i \in Nets : P_AfterList(i)
  \/ \E i \in Nets : P_AfterDescriptor(i)
  \/ \E i \in Nets : P_WroteSvc(i)
  \/ \E i \in Nets : P_WroteMsg(i)
  \/ \E i \in Nets : P_WriteFailed(i)
  \/ \E i \in Nets : P_WroteManifest(i)
  \/ \E i \in Nets : P_Catch(i)
  \/ Main_Summary

SpecDisk == InitDisk /\ [][NextDisk]_vars

(***************************************************************************)
(* Properties                                                              *)
(***************************************************************************)
\* the attempts and delays of an invocation, without the client creations
Events(f) == SelectSeq(f.log, LAMBDA e : e.kind # "client")

\* the attempts of an invocation
Attempts(f) == SelectSeq(f.log, LAMBDA e : e.kind = "attempt")

\* event j is the first attempt made on its endpoint position
FirstAttemptOn(ev, j) ==
  /\ ev[j].kind = "attempt"
  /\ \A m \in 1..(j - 1) : ev[m].kind = "attempt" => ev[m].ep # ev[j].ep

FailedAttempt(e, k, a) == e.kind = "attempt" /\ e.ep = k /\ e.n = a /\ ~e.ok

\* events j-4 .. j are: failed attempt 1, a 2000 ms delay, failed attempt 2,
\* a 2000 ms delay, failed attempt 3, all on one endpoint position first
\* attempted at j-4
ExhaustionEndsAt(ev, j) ==
  /\ j >= 5
  /\ LET k == ev[j].ep
     IN  /\ FirstAttemptOn(ev, j - 4)
         /\ FailedAttempt(ev[j - 4], k, 1)
         /\ ev[j - 3].kind = "wait" /\ ev[j - 3].ms = 2000
         /\ FailedAttempt(ev[j - 2], k, 2)
         /\ ev[j - 1].kind = "wait" /\ ev[j - 1].ms = 2000
         /\ FailedAttempt(ev[j], k, 3)

\* C1: within one fetchWithFailover invocation, whenever a further endpoint is
\* first attempted, the events just before it are exactly three failed
\* attempts on the previous endpoint with a 2000 ms delay between attempts 1-2
\* and 2-3 and none after the third; the same holds of the last endpoint when
\* the invocation throws.
C1_ThreeAttemptsThenFailover ==
  \A i \in DOMAIN fetch :
    LET ev == Events(fetch[i])
    IN  /\ \A j \in 2..Len(ev) :
             FirstAttemptOn(ev, j) =>
               /\ ExhaustionEndsAt(ev, j - 1)
               /\ ev[j].ep = ev[j - 1].ep + 1
               /\ ev[j].n = 1
        /\ (fetch[i].outcome = "thrown" /\ Endpoints(i) # <<>>) =>
             ExhaustionEndsAt(ev, Len(ev))

\* C1 witness: a second endpoint is being attempted after the first was exhausted
C1_Witness ==
  \E i \in DOMAIN fetch :
    /\ pc[i] = "attempt"
    /\ fetch[i].epIdx = 2
    /\ Len(Events(fetch[i])) = 5

\* C2: within one invocation the attempts visit the list positions in list
\* order (position 1 first, then each time the same or the next position), at
\* most three attempts per position, and a position that has had its third
\* attempt is not attempted again.
C2_ListOrderNoRevisit ==
  \A i \in DOMAIN fetch :
    LET at == Attempts(fetch[i])
    IN  /\ (at # <<>>) => at[1].ep = 1
        /\ \A j \in 1..(Len(at) - 1) :
             /\ at[j + 1].ep \in {at[j].ep, at[j].ep + 1}
             /\ at[j + 1].ep \in 1..Len(Endpoints(i))
        /\ \A j \in DOMAIN at : \A m \in DOMAIN at :
             (j < m /\ at[j].n = 3) => at[m].ep > at[j].ep
        /\ \A k \in 1..Len(Endpoints(i)) :
             Cardinality({ j \in DOMAIN at : at[j].ep = k }) <= 3

\* C2 witness: an invocation over two endpoints has exhausted both, in order
C2_Witness ==
  \E i \in DOMAIN fetch :
    /\ fetch[i].outcome = "thrown"
    /\ Len(Endpoints(i)) = 2
    /\ [j \in 1..6 |-> Attempts(fetch[i])[j].ep] = <<1, 1, 1, 2, 2, 2>>

\* C3: a successful attempt ends the invocation at once: it is the last entry
\* of the invocation's log, the invocation has returned that attempt's answer
\* with the endpoint it was made on; when the first attempt on the first
\* endpoint succeeds it is the only attempt. Identity resolution hands only
\* the first endpoint to getChainId, once.
C3_SuccessReturnsAtOnce ==
  /\ \A i \in DOMAIN fetch :
       LET lg == fetch[i].log
       IN  /\ \A j \in DOMAIN lg :
                (lg[j].kind = "attempt" /\ lg[j].ok) =>
                  /\ j = Len(lg)
                  /\ fetch[i].outcome = "returned"
                  /\ fetch[i].endpoint = Endpoints(i)[lg[j].ep]
                  /\ fetch[i].result \in Answers(fetch[i].fn, fetch[i].arg)
                  /\ pc[i] = "returned"
           /\ fetch[i].outcome = "returned" =>
                (lg # <<>> /\ lg[Len(lg)].kind = "attempt" /\ lg[Len(lg)].ok)
           /\ (Len(lg) >= 2 /\ lg[2].kind = "attempt" /\ lg[2].ok) =>
                /\ Len(Attempts(fetch[i])) = 1
                /\ \A j \in DOMAIN lg : lg[j].ep = 1
  /\ \A i \in DOMAIN idTouched :
       /\ idTouched[i] = (IF Endpoints(i) = <<>> THEN <<>> ELSE <<1>>)
       /\ chainId[i] # Null =>
            /\ activeEndpoint[i] = Endpoints(i)[1]
            /\ chainId[i] = getChainId(Endpoints(i)[1])

\* C3 witness: a network with two endpoints whose first endpoint answered the
\* first attempt of listServices
C3_Witness ==
  \E i \in DOMAIN fetch :
    /\ Len(Endpoints(i)) = 2
    /\ fetch[i].fn = "listServices"
    /\ fetch[i].outcome = "returned"
    /\ Len(fetch[i].log) = 2
    /\ fetch[i].endpoint = Endpoints(i)[1]
    /\ idTouched[i] = <<1>>

FailedOn(f, k) ==
  Cardinality({ j \in DOMAIN f.log :
                  f.log[j].kind = "attempt" /\ f.log[j].ep = k /\ ~f.log[j].ok })

C4_ThrowIffAllFailed ==
  \A i \in DOMAIN fetch :
    fetch[i].fn # "none" =>
      /\ (fetch[i].outcome = "thrown") <=>
           (\A k \in 1..Len(Endpoints(i)) : FailedOn(fetch[i], k) = 3)
      /\ (fetch[i].outcome = "thrown") <=> (pc[i] = "thrown")
      /\ (fetch[i].outcome = "thrown") =>
           /\ Len(Attempts(fetch[i])) = 3 * Len(Endpoints(i))
           /\ \A j \in DOMAIN fetch[i].log : ~fetch[i].log[j].ok

C4_ThrowFailsOnlyItsNetwork ==
  \A i \in DOMAIN pc :
    (pc[i] = "thrown" /\ pc'[i] # "thrown") =>
      /\ result'[i].status = "failed"
      /\ result'[i].error \in { "[listServices] all endpoints failed",
                                "[fileContainingSymbol] all endpoints failed" }
      /\ \A j \in DOMAIN result : j # i => result'[j] = result[j]

\* C4: an invocation throws "all endpoints failed" exactly when every endpoint
\* position of the list has three failed attempts (3 * N failed attempts, no
\* success); the step that handles the throw makes the invoking network's
\* result 'failed' with that error and leaves every other network's result as
\* it was.
C4_AllFailedIsLocal == []C4_ThrowIffAllFailed /\ [][C4_ThrowFailsOnlyItsNetwork]_vars

\* C4 witness: a network failed with the all-endpoints-failed error beside a
\* network that succeeded
C4_Witness ==
  \E i \in DOMAIN result : \E j \in DOMAIN result :
    /\ i # j
    /\ result[i].status = "failed"
    /\ result[i].error = "[listServices] all endpoints failed"
    /\ result[j].status = "success"

\* C5: at the end of a run, for any two networks A and B, if every endpoint of
\* A fails every attempt and some endpoint of B answers every call, then A's
\* result is 'failed', B's result is 'success' and the exit code is 0.
C5_FailedSiblingSuccess ==
  phase = "finished" =>
    \A a \in Nets : \A b \in Nets :
      ( /\ a # b
        /\ \A e \in Range(Endpoints(a)) : health[e] = "down"
        /\ \E e \in Range(Endpoints(b)) : health[e] = "up" ) =>
      /\ result[a].status = "failed"
      /\ result[b].status = "success"
      /\ exitCode = 0

\* C6: no output path is written by two different networks.
C6_DisjointOutputPaths ==
  \A f \in files : \A g \in files : f.by # g.by => f.path # g.path

\* C7: the summary is empty until every configured network has a terminal
\* result; once printed it holds one line per configured network, in
\* configuration order, naming that network and agreeing with its result, and
\* the run ends with exit code 0 whatever the mix of results; a nonzero exit
\* code only ever comes from an empty configuration.
C7_SummaryAfterAllSettled ==
  /\ phase # "finished" => summary = <<>>
  /\ phase = "finished" =>
       /\ \A i \in Nets :
            /\ pc[i] = "done"
            /\ result[i].status \in {"success", "failed"}
       /\ Len(summary) = Len(networkConfigs)
       /\ \A i \in Nets :
            /\ summary[i].network = networkConfigs[i].name
            /\ summary[i].ok <=> (result[i].status = "success")
       /\ exitCode = 0
  /\ exitCode = 1 => (Len(networkConfigs) = 0 /\ phase = "exited")

\* C7 witness: the summary of a run in which one network failed and another
\* succeeded
C7_Witness ==
  /\ phase = "finished"
  /\ Len(summary) = 2
  /\ \E i \in Nets : \E j \in Nets : ~summary[i].ok /\ summary[j].ok

\* C8 as claimed: no reflection client is used for more than one attempt.
C8_OneAttemptPerClient ==
  \A i \in DOMAIN fetch :
    LET at == Attempts(fetch[i])
    IN  \A j \in DOMAIN at : \A m \in DOMAIN at :
          j # m => at[j].client # at[m].client

\* C8 amended: a reflection client is made once per endpoint visited by an
\* invocation, before the first attempt on that endpoint, and serves all of
\* that endpoint's attempts (up to 3) and no attempt on another endpoint.
C8_OneClientPerEndpointVisit ==
  \A i \in DOMAIN fetch :
    LET lg == fetch[i].log
        made == { j \in DOMAIN lg : lg[j].kind = "client" }
    IN  /\ \A j \in made : \A m \in made :
             j # m => (lg[j].client # lg[m].client /\ lg[j].ep # lg[m].ep)
        /\ \A j \in DOMAIN lg :
             lg[j].kind = "attempt" =>
               \E m \in made :
                 /\ m < j
                 /\ lg[m].client = lg[j].client
                 /\ lg[m].ep = lg[j].ep
        /\ \A j \in made :
             Cardinality({ m \in DOMAIN lg :
                             lg[m].kind = "attempt" /\ lg[m].client = lg[j].client }) <= 3

\* C8 witness: one client has served three attempts and a second client, made
\* for the next endpoint, is in use
C8_Witness ==
  \E i \in DOMAIN fetch :
    LET at == Attempts(fetch[i])
    IN  /\ Len(at) = 4
        /\ at[1].client = at[3].client
        /\ at[4].client # at[3].client
        /\ at[4].ep = 2

\* C9: no network that has at least one endpoint ends 'failed' with
\* 'Could not determine chain ID'.
C9_IdentityNeverFails ==
  \A i \in DOMAIN result :
    Len(Endpoints(i)) >= 1 =>
      ~(result[i].status = "failed" /\ result[i].error = "Could not determine chain ID")

\* C10: every network produced by getNetworkConfigs has a non-empty endpoint
\* list.
C10_EndpointsNonEmpty ==
  \A k \in DOMAIN networkConfigs : networkConfigs[k].endpoints # <<>>

\* C11 (as claimed): in every configuration the names getNetworkConfigs
\* returns are pairwise distinct.
C11_NamesDistinct ==
  \A j, k \in Nets : j # k => networkConfigs[j].name # networkConfigs[k].name

\* C12: the process exits with code 1 exactly when no network is configured,
\* and then before any pipeline exists: no reflection call, no file, no
\* result.  With a network configured the only exit code is 0, set when the
\* summary is printed.
C12_ExitCodes ==
  /\ exitCode = 1 =>
       /\ Len(getNetworkConfigs(env)) = 0
       /\ phase = "exited"
       /\ pc = <<>> /\ fetch = <<>> /\ result = <<>>
       /\ files = {}
  /\ (phase # "load" /\ Len(getNetworkConfigs(env)) = 0) =>
       phase = "exited" /\ exitCode = 1
  /\ Len(getNetworkConfigs(env)) >= 1 => exitCode \in {-1, 0}
  /\ phase = "finished" => exitCode = 0 /\ Len(networkConfigs) >= 1
  /\ exitCode = 0 => phase = "finished" /\ summary # <<>>

C12_Witness ==
  /\ phase = "exited"
  /\ exitCode = 1
  /\ networkConfigs = <<>>
  /\ env # <<>>

\* C13 (as claimed): with one positional argument the run has exactly one
\* network, named default, whose only endpoint is that argument.
C13_OverrideWins ==
  (phase # "load" /\ argv # <<>>) =>
    networkConfigs = << [name |-> NameDefault, endpoints |-> << argv[1] >>] >>

\* the text before the first ':'
HostPortion(e) ==
  IF ":" \in Range(e)
  THEN SubSeq(e, 1, (CHOOSE k \in 1..Len(e) :
                       e[k] = ":" /\ \A j \in 1..(k - 1) : e[j] # ":") - 1)
  ELSE e

Occurs(text, word) ==
  \E k \in 0..(Len(text) - Len(word)) : SubSeq(text, k + 1, k + Len(word)) = word

\* the documented table, first match first; Null when nothing matches
TableLookup(text) ==
  IF Occurs(text, <<"c", "o", "s", "m", "o", "s", "h", "u", "b">>) THEN <<"c", "o", "s", "m", "o", "s", "h", "u", "b", "-", "4">>
  ELSE IF Occurs(text, <<"o", "s", "m", "o", "s", "i", "s">>) THEN <<"o", "s", "m", "o", "s", "i", "s", "-", "1">>
  ELSE IF Occurs(text, <<"n", "e", "u", "t", "r", "o", "n">>) THEN <<"n", "e", "u", "t", "r", "o", "n", "-", "1">>
  ELSE IF Occurs(text, <<"j", "u", "n", "o">>) THEN <<"j", "u", "n", "o", "-", "1">>
  ELSE IF Occurs(text, <<"a", "k", "a", "s", "h">>) THEN <<"a", "k", "a", "s", "h", "n", "e", "t", "-", "2">>
  ELSE Null

Sanitized(h) == [k \in 1..Len(h) |-> IF IsIdChar(h[k]) THEN h[k] ELSE "-"]

\* the reference function as claimed: the table is matched on the host portion
ClaimedChainId(e) ==
  IF TableLookup(HostPortion(e)) # Null
  THEN TableLookup(HostPortion(e))
  ELSE Sanitized(HostPortion(e))

\* the reference function of the code: the table is matched on the endpoint
ReferenceChainId(e) ==
  IF TableLookup(e) # Null THEN TableLookup(e) ELSE Sanitized(HostPortion(e))

\* the two documented examples, and no reflection call before the identity
\* is known
IdentityExamples(i) ==
  /\ activeEndpoint[i] = ExampleOsmosis => chainId[i] = <<"o", "s", "m", "o", "s", "i", "s", "-", "1">>
  /\ activeEndpoint[i] = ExampleFooBar => chainId[i] = <<"f", "o", "o", "-", "b", "a", "r", "-", "n", "e", "t">>
  /\ fetch[i] = IdleFetch

\* C19 (as claimed): the chain id is the first table entry whose substring
\* occurs in the host portion of the endpoint, else the sanitized host.
C19_MatchesHostPortion ==
  \A i \in DOMAIN chainId :
    chainId[i] # Null =>
      /\ chainId[i] = ClaimedChainId(activeEndpoint[i])
      /\ IdentityExamples(i)

\* C19 (amended): the chain id is the first table entry whose substring
\* occurs anywhere in the endpoint string, else the sanitized host portion;
\* no reflection call is made.
C19_MatchesWholeEndpoint ==
  \A i \in DOMAIN chainId :
    chainId[i] # Null =>
      /\ chainId[i] = ReferenceChainId(activeEndpoint[i])
      /\ IdentityExamples(i)

C19_Witness ==
  \E i \in DOMAIN chainId :
    /\ activeEndpoint[i] = <<"x", "_", "y", ".", ":", "j", "u", "n", "o">>
    /\ chainId[i] = <<"j", "u", "n", "o", "-", "1">>

\* a name under the reserved prefix, spelled out
UnderReflection(svc) ==
  LET prefix == <<"g", "r", "p", "c", ".", "r", "e", "f", "l", "e", "c", "t", "i", "o", "n">>
  IN  Len(svc) >= Len(prefix) /\ SubSeq(svc, 1, Len(prefix)) = prefix

\* C14: whatever listServices returns, no fileContainingSymbol call is made
\* for a service under grpc.reflection, no file is written for it and no
\* manifest entry names it.
C14_ReflectionExcluded ==
  /\ \A i \in DOMAIN fetch :
       /\ fetch[i].fn = "fileContainingSymbol" => ~UnderReflection(fetch[i].arg)
       /\ pc[i] \in {"writeSvc", "writeMsg"} => ~UnderReflection(services[i][svcIdx[i]])
       /\ \A k \in DOMAIN manifest[i].services :
            ~UnderReflection(manifest[i].services[k].service)
  /\ \A f \in files :
       /\ ~UnderReflection(f.header.service)
       /\ \A k \in DOMAIN f.manifest.services :
            ~UnderReflection(f.manifest.services[k].service)
       /\ Len(f.path) >= 4 =>
            ~(f.path[3] = <<"g", "r", "p", "c">>
              /\ f.path[4] = <<"r", "e", "f", "l", "e", "c", "t", "i", "o", "n">>)

C14_Witness ==
  \E i \in DOMAIN result :
    /\ \E k \in DOMAIN services[i] : UnderReflection(services[i][k])
    /\ result[i].status = "success"
    /\ result[i].servicesCount = 1
    /\ \E f \in files : f.by = i /\ f.kind = "msg"

\* the request and response types of the methods, method by method
Flat(ms) ==
  [k \in 1..(2 * Len(ms)) |->
     IF k % 2 = 1 THEN ms[(k + 1) \div 2].requestType ELSE ms[k \div 2].responseType]

FirstAt(seq, x) ==
  CHOOSE k \in 1..Len(seq) : seq[k] = x /\ \A j \in 1..(k - 1) : seq[j] # x

\* C15: the message types considered for a service are exactly the request
\* and response types of its methods, each once, ordered by their first
\* occurrence (methods in declaration order, request before response).
C15_UsedFirstSeenOrder ==
  \A i \in DOMAIN used :
    pc[i] = "writeMsg" =>
      LET fl == Flat(roots[services[i][svcIdx[i]]].methods)
          u  == used[i]
      IN  /\ Range(u) = Range(fl)
          /\ \A a, b \in DOMAIN u :
               a < b => u[a] # u[b] /\ FirstAt(fl, u[a]) < FirstAt(fl, u[b])

C15_Witness ==
  \E i \in DOMAIN used :
    /\ pc[i] = "writeMsg"
    /\ Len(roots[services[i][svcIdx[i]]].methods) = 2
    /\ used[i] = <<"bank.Req", "bank.Empty">>

\* C16: the service text has one rpc line per method, in declaration order,
\* with the stream keyword on the request side exactly when requestStream is
\* set and on the response side exactly when responseStream is set.
C16_RpcLinePerMethod ==
  \A f \in files :
    f.kind = "svc" =>
      LET ms == roots[f.header.service].methods
      IN  /\ Len(f.rpcs) = Len(ms)
          /\ \A k \in DOMAIN ms :
               /\ f.rpcs[k].name = ms[k].name
               /\ f.rpcs[k].requestType = ms[k].requestType
               /\ f.rpcs[k].responseType = ms[k].responseType
               /\ f.rpcs[k].reqStream \in {"stream ", ""}
               /\ f.rpcs[k].resStream \in {"stream ", ""}
               /\ f.rpcs[k].reqStream = "stream " <=> ms[k].requestStream
               /\ f.rpcs[k].resStream = "stream " <=> ms[k].responseStream

C16_Witness ==
  \E f \in files :
    /\ f.kind = "svc"
    /\ Len(f.rpcs) = 2
    /\ f.rpcs[1].reqStream = "" /\ f.rpcs[1].resStream = "stream "
    /\ f.rpcs[2].reqStream = "stream " /\ f.rpcs[2].resStream = ""

\* the services of a list that are not under the reserved prefix, in order
Rendered(svcs) == SelectSeq(svcs, LAMBDA x : ~UnderReflection(x))

\* one entry per service rendered so far, in listServices order
C17_EntryPerRenderedService ==
  \A i \in DOMAIN manifest :
    manifest[i] # NoManifest =>
      LET done == Rendered(SubSeq(services[i], 1, svcIdx[i] - 1))
          list == manifest[i].services
      IN  /\ Len(list) = Len(done)
          /\ \A k \in DOMAIN list :
               /\ list[k].service = done[k]
               /\ list[k].methods = Len(roots[done[k]].methods)

\* a step leaves the list as it is or adds one entry at its end
C17_OnlyAppended ==
  \A i \in DOMAIN manifest :
    LET a == manifest[i].services
        b == manifest'[i].services
    IN  /\ Len(b) \in {Len(a), Len(a) + 1}
        /\ SubSeq(b, 1, Len(a)) = a

\* C17: at every point of a pipeline the manifest holds exactly one entry per
\* service rendered so far, in listServices order without the reflection
\* services, and entries are only appended.
C17_ManifestGrowsInOrder ==
  []C17_EntryPerRenderedService /\ [][C17_OnlyAppended]_vars

C17_Witness ==
  \E i \in DOMAIN manifest :
    /\ Len(manifest[i].services) = 2
    /\ manifest[i].services[1].service = SvcBank
    /\ manifest[i].services[2].service = SvcGov
    /\ pc[i] = "writeManifest"

\* the message file and the service file of the same service and network
SvcFileOf(f) ==
  { g \in files : g.kind = "svc" /\ g.by = f.by /\ g.header = f.header }

\* a pipeline that ended well has rendered every service outside the prefix
Completed(i) ==
  /\ result[i].status = "success"
  /\ [k \in DOMAIN manifest[i].services |-> manifest[i].services[k].service]
       = Rendered(services[i])

\* C18 (as claimed): a type that does not resolve, or resolves to a
\* descriptor with no fields, gets no message block; the service text and
\* the manifest entry are still produced and the pipeline goes on.
C18_NoFieldsNoBlock ==
  /\ \A f \in files :
       f.kind = "msg" =>
         /\ \A k \in DOMAIN f.blocks : f.blocks[k].lines # <<>>
         /\ SvcFileOf(f) # {}
  /\ \A i \in DOMAIN result : pc[i] = "done" => Completed(i)

\* C18 (amended): a type whose lookup returns nothing, or an object without
\* a field map, gets no message block; a message with an empty field map
\* gets a block with no field line.  In each case the service text and the
\* manifest entry are still produced and the pipeline goes on.
C18_BlockIffFieldMap ==
  /\ \A f \in files :
       f.kind = "msg" =>
         LET r    == roots[f.header.service]
             kept == SelectSeq(UsedTypes(r.methods),
                               LAMBDA t : r.types[t].resolved /\ r.types[t].hasFields)
         IN  /\ Len(f.blocks) = Len(kept)
             /\ \A k \in DOMAIN kept :
                  /\ f.blocks[k].name = r.types[kept[k]].name
                  /\ Len(f.blocks[k].lines) = Len(r.types[kept[k]].fields)
             /\ SvcFileOf(f) # {}
  /\ \A i \in DOMAIN result : pc[i] = "done" => Completed(i)

C18_Witness ==
  \E i \in DOMAIN result :
    /\ pc[i] = "done"
    /\ result[i].status = "success"
    /\ \E f \in files :
         /\ f.kind = "msg"
         /\ f.by = i
         /\ f.blocks = << [name |-> "Empty", lines |-> <<>>] >>
         /\ {"bank.Gone", "bank.Opaque"} \subseteq Range(UsedTypes(roots[f.header.service].methods))

\* the step that ends a pipeline as failed writes and removes nothing; a
\* failed network writes nothing afterwards; no step removes a file
C20_FailureKeepsFiles ==
  /\ files \subseteq files'
  /\ \A i \in DOMAIN result :
       /\ (result[i].status # "failed" /\ result'[i].status = "failed") => files' = files
       /\ result[i].status = "failed" =>
            { f \in files' : f.by = i } = { f \in files : f.by = i }

\* C20: when a pipeline fails after some services were processed, the files
\* written before stay as they are and the failure changes no other
\* network's files.
C20_NoRollback == [][C20_FailureKeepsFiles]_vars

C20_Witness ==
  \E i \in DOMAIN result :
    /\ result[i].status = "failed"
    /\ \E f \in files : f.by = i /\ f.kind = "msg"
    /\ \E f \in files : f.by # i

\* C21 (as claimed): once the service loop has begun, a network ends as
\* failed only when a fetch has reported all endpoints exhausted; any other
\* failure confined to one service leaves the remaining services processed.
C21_OnlyExhaustionAborts ==
  \A i \in DOMAIN result :
    (pc[i] = "done" /\ manifest[i] # NoManifest) =>
      \/ result[i].status = "failed"
           /\ result[i].error = "[fileContainingSymbol] all endpoints failed"
      \/ result[i].status = "success"
           /\ [k \in DOMAIN manifest[i].services |-> manifest[i].services[k].service]
                = Rendered(services[i])

\* an invocation makes at most 3 attempts per endpoint, a pipeline begins at
\* most one invocation for listServices and one per listed service outside
\* the reflection prefix, so it makes at most 3 N (S + 1) attempts; a
\* pipeline ends by returning a result
C22_Bounded ==
  \A i \in DOMAIN calls :
    LET N == Len(Endpoints(i))
        S == Len(Rendered(services[i]))
    IN  /\ Len(Attempts(fetch[i])) <= RETRIES * N
        /\ calls[i] <= S + 1
        /\ calls[i] * RETRIES * N <= RETRIES * N * (S + 1)
        /\ pc[i] = "done" =>
             /\ result[i].status \in {"success", "failed"}
             /\ result[i].network = networkConfigs[i].name

\* once main has been called every pipeline settles and the summary is printed
C22_Settles ==
  (phase = "configured") ~>
    /\ phase = "finished"
    /\ \A i \in DOMAIN pc : pc[i] = "done"
    /\ Len(summary) = Len(networkConfigs)

\* C22: when every reflection call settles, every pipeline reaches a result
\* (success or failed) within 3 N (S + 1) attempts, processNetwork returns
\* and never rejects, and main prints the summary.
C22_TerminatesWithinBudget == []C22_Bounded /\ C22_Settles

C22_Witness ==
  /\ phase = "finished"
  /\ \E i \in DOMAIN calls :
       /\ Len(Rendered(services[i])) = 2
       /\ calls[i] = 3
       /\ result[i].status = "success"
  /\ \E i \in DOMAIN calls : result[i].status = "failed" /\ calls[i] >= 1

\* the manifest.json writes of pipeline i among a set of writes
ManifestWrites(fs, i) == { f \in fs : f.kind = "manifest" /\ f.by = i }

\* both files of every listed service outside the reflection prefix are written
AllServiceFilesWritten(i) ==
  \A k \in DOMAIN Rendered(services[i]) :
    \A kind \in {"svc", "msg"} :
      \E f \in files :
        /\ f.by = i
        /\ f.kind = kind
        /\ f.header.service = Rendered(services[i])[k]

\* a written manifest goes with a success that counts every rendered service,
\* and a failed pipeline has written none
C23_ManifestState ==
  \A i \in DOMAIN result :
    /\ ManifestWrites(files, i) # {} =>
         /\ AllServiceFilesWritten(i)
         /\ result[i].status = "success"
    /\ result[i].status = "failed" => ManifestWrites(files, i) = {}
    /\ result[i].status = "success" =>
         /\ ManifestWrites(files, i) # {}
         /\ result[i].servicesCount = Len(Rendered(services[i]))

\* the manifest is written by the last step of a pipeline, after the files
\* of all its services, and the pipeline writes nothing afterwards
C23_ManifestStep ==
  \A i \in DOMAIN pc \cap DOMAIN pc' :
    /\ (ManifestWrites(files, i) = {} /\ ManifestWrites(files', i) # {}) =>
         /\ pc[i] = "writeManifest"
         /\ pc'[i] = "done"
         /\ AllServiceFilesWritten(i)
         /\ Cardinality(ManifestWrites(files', i)) = 1
    /\ ManifestWrites(files, i) # {} =>
         /\ pc[i] = "done"
         /\ pc'[i] = "done"
         /\ { f \in files' : f.by = i } = { f \in files : f.by = i }

\* C23: a pipeline writes manifest.json at most once, only after the
\* .svc.proto and .msg.proto files of every listed service outside the
\* reflection prefix, and never when its result is 'failed'; the servicesCount
\* of a 'success' is the number of listed services outside the prefix.
C23_ManifestOnceAtTheEnd == []C23_ManifestState /\ [][C23_ManifestStep]_vars

C23_Witness ==
  \E i \in DOMAIN result :
    /\ result[i].status = "success"
    /\ result[i].servicesCount = 2
    /\ Cardinality(ManifestWrites(files, i)) = 1
    /\ Cardinality({ f \in files : f.by = i }) = 5

\* the step that begins an invocation puts it on the first endpoint, first
\* attempt, with nothing carried over from the invocation before
C24_InvocationStart ==
  \A i \in DOMAIN calls \cap DOMAIN calls' :
    calls'[i] = calls[i] + 1 =>
      IF Endpoints(i) = <<>>
      THEN pc'[i] = "thrown"
      ELSE /\ pc'[i] = "attempt"
           /\ fetch'[i].epIdx = 1
           /\ fetch'[i].attempt = 1
           /\ fetch'[i].log = <<LogClient(1, 1)>>

\* the attempts of an invocation: the first is attempt 1 on the first
\* endpoint, each next one is the next attempt on the same endpoint or, after
\* attempt 3, attempt 1 on the next endpoint
C24_AttemptOrder ==
  \A i \in DOMAIN fetch :
    LET a == Attempts(fetch[i])
    IN  \A j \in DOMAIN a :
          IF j = 1
          THEN a[j].ep = 1 /\ a[j].n = 1
          ELSE \/ a[j].ep = a[j - 1].ep /\ a[j].n = a[j - 1].n + 1 /\ a[j].n <= RETRIES
               \/ a[j].ep = a[j - 1].ep + 1 /\ a[j].n = 1 /\ a[j - 1].n = RETRIES

\* C24: every fetchWithFailover invocation of a pipeline starts again at the
\* first configured endpoint with a fresh budget of 3 attempts per endpoint,
\* whichever endpoint answered before: an endpoint exhausted during
\* listServices is attempted again, first, by every later fileContainingSymbol.
C24_EveryInvocationStartsOver == []C24_AttemptOrder /\ [][C24_InvocationStart]_vars

C24_Witness ==
  \E i \in DOMAIN fetch :
    /\ Len(Endpoints(i)) = 2
    /\ Endpoints(i)[1] # Endpoints(i)[2]
    /\ manifest[i].endpoint = Endpoints(i)[2]
    /\ fetch[i].fn = "fileContainingSymbol"
    /\ calls[i] = 3
    /\ LET a == Attempts(fetch[i])
       IN  /\ Len(a) = RETRIES + 1
           /\ \A j \in 1..RETRIES : a[j].ep = 1 /\ a[j].n = j /\ ~a[j].ok
           /\ a[RETRIES + 1].ep = 2 /\ a[RETRIES + 1].ok

====
